---- MODULE Spec2Model ----
(***************************************************************************)
(* NSW feasibility API (src/app.py): POST /api/feasibility/prefill.        *)
(*                                                                         *)
(* JSON values (Python objects after json.loads / request.json) are        *)
(* records tagged by kind:                                                 *)
(*   [kind |-> "null"]                       None                          *)
(*   [kind |-> "bool", bool |-> TRUE/FALSE]  True / False                  *)
(*   [kind |-> "num",  digits |-> "8"]       int                           *)
(*   [kind |-> "nan"]                        float('nan')                  *)
(*   [kind |-> "str",  chars |-> <<...>>]    str, as a sequence of pieces  *)
(*   [kind |-> "obj",  members |-> f]        dict, f : keys -> values      *)
(* Text (a Python str) is a sequence of pieces, so that concatenation,     *)
(* join and tokenisation are sequence operations.                          *)
(***************************************************************************)
EXTENDS Integers, Sequences, FiniteSets, TLC

VARIABLES
    client,        \* module-level OpenAI client (line 13), shared by all requests
    pc,            \* pc[r]: position of request r inside feasibility_prefill
    request_json,  \* request_json[r]: flask request.json of request r
    project_data,  \* project_data[r]: local of feasibility_prefill (line 159)
    user_prompt,   \* user_prompt[r]: local of call_chatgpt_prefill (line 106)
    completion,    \* completion[r]: what client.chat.completions.create gave
    data,          \* data[r]: local of call_chatgpt_prefill (lines 145/147)
    response,      \* response[r]: what the caller of request r receives
    calls,         \* calls[r]: provider calls issued on behalf of request r
    served,        \* number of requests accepted so far
    seen           \* bodies already answered with an envelope (history)

vars == <<client, pc, request_json, project_data, user_prompt, completion,
          data, response, calls, served, seen>>

----------------------------------------------------------------------------
(* Bounds *)

NumRequests == 2      \* request slots served concurrently
MaxServed == 3        \* requests accepted in one behaviour
MaxTextLen == 5       \* pieces in a provider text

Requests == 1..NumRequests

----------------------------------------------------------------------------
(* JSON values *)

None == [kind |-> "null"]
NaN == [kind |-> "nan"]
JStr(c) == [kind |-> "str", chars |-> c]
JNum(d) == [kind |-> "num", digits |-> d]
JBool(b) == [kind |-> "bool", bool |-> b]
JObj(f) == [kind |-> "obj", members |-> f]

EmptyDict == JObj([k \in {} |-> None])

\* Python truth value of a JSON value (`not x` is ~Truthy(x)).
Truthy(v) ==
    CASE v.kind = "null" -> FALSE
      [] v.kind = "bool" -> v.bool
      [] v.kind = "num" -> v.digits # "0"
      [] v.kind = "nan" -> TRUE
      [] v.kind = "str" -> v.chars # <<>>
      [] v.kind = "obj" -> DOMAIN v.members # {}

\* dict.get(k): the value under k, None when the key is absent.
Get(d, k) == IF k \in DOMAIN d.members THEN d.members[k] ELSE None

\* str(v) as used by an f-string replacement field.
PyStr(v) ==
    CASE v.kind = "null" -> <<"None">>
      [] v.kind = "bool" -> IF v.bool THEN <<"True">> ELSE <<"False">>
      [] v.kind = "num" -> <<v.digits>>
      [] v.kind = "nan" -> <<"nan">>
      [] v.kind = "str" -> v.chars
      [] v.kind = "obj" -> <<"{...}">>

----------------------------------------------------------------------------
(* Request validation, lines 161-164 *)

required == <<"address", "lga", "project_type">>

\* missing, as a check that stops at the first absent field.
missing_first(d) ==
    LET all == SelectSeq(required, LAMBDA k : ~Truthy(Get(d, k)))
    IN IF all = <<>> THEN <<>> ELSE <<all[1]>>

missing(d) == SelectSeq(required, LAMBDA k : ~Truthy(Get(d, k)))

\* sep.join(s)
RECURSIVE join(_, _)
join(sep, s) ==
    IF s = <<>> THEN <<>>
    ELSE IF Len(s) = 1 THEN <<s[1]>>
    ELSE <<s[1], sep>> \o join(sep, Tail(s))

MissingFieldsResponse(d) ==
    [status |-> 400,
     json |-> [error |-> <<"Missing fields: ">> \o join(", ", missing(d))]]

----------------------------------------------------------------------------
(* Prompt building, lines 106-131 *)

\* The six interpolated lines of the f-string, each a <<label, value>> pair;
\* the fixed "Task: ..." tail follows them as one constant piece.
PromptLine(label, d, k) == <<label, PyStr(Get(d, k))>>

\* UserPrompt, as a builder that leaves out the line of an absent field.
UserPromptOmit(d) ==
    LET line(label, k) == IF k \in DOMAIN d.members
                          THEN << <<label, PyStr(d.members[k])>> >> ELSE <<>>
    IN << <<"Project details:", <<>> >> >>
       \o line("- Address: ", "address") \o line("- LGA: ", "lga")
       \o line("- Project type: ", "project_type")
       \o line("- Number of dwellings: ", "dwellings")
       \o line("- Gross floor area (m2): ", "gfa_m2")
       \o line("- Brief description: ", "description")
       \o << <<"Task: ...", <<>> >> >>

UserPrompt(d) ==
    << <<"Project details:", <<>> >>,
       PromptLine("- Address: ", d, "address"),
       PromptLine("- LGA: ", d, "lga"),
       PromptLine("- Project type: ", d, "project_type"),
       PromptLine("- Number of dwellings: ", d, "dwellings"),
       PromptLine("- Gross floor area (m2): ", d, "gfa_m2"),
       PromptLine("- Brief description: ", d, "description"),
       <<"Task: ...", <<>> >> >>

NoPrompt == <<>>

----------------------------------------------------------------------------
(* json.loads, line 145.  A text is a sequence of lexical pieces; the      *)
(* scanner follows json.scanner.py_make_scanner / json.decoder.JSONObject. *)
(* allow_nan is TRUE for json.loads as called here (default                *)
(* parse_constant accepts NaN) and FALSE for the JSON grammar of RFC 8259. *)

StringPieces == {"\"error\"", "\"a\""}
StringOf(p) == IF p = "\"error\"" THEN "error" ELSE "a"
NumberPieces == {"1"}

Fail == [ok |-> FALSE]
Scanned(v, e) == [ok |-> TRUE, val |-> v, end |-> e]

RECURSIVE scan_once(_, _, _)
RECURSIVE JSONObject(_, _, _, _)

\* Members of an object from position idx, which follows "{" or ",";
\* acc holds the pairs read so far (a later duplicate key overrides).
JSONObject(s, idx, acc, allow_nan) ==
    IF idx + 1 > Len(s) \/ s[idx] \notin StringPieces \/ s[idx + 1] # ":"
    THEN Fail
    ELSE LET key == StringOf(s[idx])
             v == scan_once(s, idx + 2, allow_nan)
         IN IF ~v.ok THEN Fail
            ELSE LET pairs == [k \in DOMAIN acc \cup {key} |->
                                  IF k = key THEN v.val ELSE acc[k]]
                 IN IF v.end > Len(s) THEN Fail
                    ELSE IF s[v.end] = "}" THEN Scanned(JObj(pairs), v.end + 1)
                    ELSE IF s[v.end] = "," THEN JSONObject(s, v.end + 1, pairs, allow_nan)
                    ELSE Fail

scan_once(s, idx, allow_nan) ==
    IF idx > Len(s) THEN Fail
    ELSE LET nextchar == s[idx]
         IN IF nextchar \in StringPieces
                THEN Scanned(JStr(<<StringOf(nextchar)>>), idx + 1)
            ELSE IF nextchar = "{"
                THEN IF idx + 1 <= Len(s) /\ s[idx + 1] = "}"
                     THEN Scanned(EmptyDict, idx + 2)
                     ELSE JSONObject(s, idx + 1, [k \in {} |-> None], allow_nan)
            ELSE IF nextchar = "null" THEN Scanned(None, idx + 1)
            ELSE IF nextchar = "true" THEN Scanned(JBool(TRUE), idx + 1)
            ELSE IF nextchar = "false" THEN Scanned(JBool(FALSE), idx + 1)
            ELSE IF nextchar \in NumberPieces THEN Scanned(JNum(nextchar), idx + 1)
            ELSE IF nextchar = "NaN" /\ allow_nan THEN Scanned(NaN, idx + 1)
            ELSE Fail

\* JSONDecoder.decode: one value, then the end of the text ("Extra data"
\* otherwise).  ~ok stands for json.JSONDecodeError.
decode(s, allow_nan) ==
    LET r == scan_once(s, 1, allow_nan)
    IN IF r.ok /\ r.end = Len(s) + 1 THEN r ELSE Fail

json_loads(s) == decode(s, TRUE)

----------------------------------------------------------------------------
(* Values of call_chatgpt_prefill and feasibility_prefill *)

\* ErrorResult, with the message under another key.
ErrorResultRenamed(content) ==
    JObj([message |-> JStr(<<"Model did not return valid JSON">>),
          raw |-> content])

\* Line 147: the fallback of the except branch; content is the str parsed.
ErrorResult(content) ==
    JObj([error |-> JStr(<<"Model did not return valid JSON">>),
          raw |-> content])

\* ParsedOrFallback, as a parser that accepts only a JSON object.
ParsedOrFallbackObjectsOnly(content) ==
    LET r == json_loads(content.chars)
    IN IF r.ok /\ r.val.kind = "obj" THEN r.val ELSE ErrorResult(content)

\* Lines 144-149, for a content that is a str.
ParsedOrFallback(content) ==
    LET r == json_loads(content.chars)
    IN IF r.ok THEN r.val ELSE ErrorResult(content)

\* Envelope, as a handler that echoes only the six documented fields.
EnvelopeKnownFields(d, ai_result) ==
    [status |-> 200,
     json |-> [project |-> JObj([k \in {"address", "lga", "project_type",
                                        "dwellings", "gfa_m2", "description"}
                                  |-> Get(d, k)]),
               ai_result |-> ai_result]]

\* Lines 168-171: the object handed to jsonify, sent with status 200.
Envelope(d, ai_result) ==
    [status |-> 200, json |-> [project |-> d, ai_result |-> ai_result]]

\* An exception that leaves the view function: Flask answers 500 with its
\* own error page, no JSON body.
InternalServerError ==
    [status |-> 500, json |-> [html |-> "Internal Server Error"]]

\* Line 13: the client built once at import from OPENAI_API_KEY.
ClientAtStartup == [api_key |-> "OPENAI_API_KEY"]

NoCompletion == [raised |-> FALSE, content |-> None]
NoResponse == [status |-> 0, json |-> [k \in {} |-> None]]

\* FirstChoiceContent, as a read of a slot shared by all requests.
FirstChoiceContentShared(r) == completion[1].content

\* Line 142: completion.choices[0].message.content of this call.
FirstChoiceContent(r) == completion[r].content

----------------------------------------------------------------------------
(* State machine *)

Init ==
    /\ client = ClientAtStartup
    /\ pc = [r \in Requests |-> "idle"]
    /\ request_json = [r \in Requests |-> None]
    /\ project_data = [r \in Requests |-> EmptyDict]
    /\ user_prompt = [r \in Requests |-> NoPrompt]
    /\ completion = [r \in Requests |-> NoCompletion]
    /\ data = [r \in Requests |-> None]
    /\ response = [r \in Requests |-> NoResponse]
    /\ calls = [r \in Requests |-> 0]
    /\ served = 0
    /\ seen = {}

\* A POST arrives on a free worker with a body drawn from bodies;
\* line 159: project_data = request.json or {}.
Receive(r, bodies) ==
    /\ pc[r] \in {"idle", "done"}
    /\ served < MaxServed
    /\ \E j \in bodies :
        /\ request_json' = [request_json EXCEPT ![r] = j]
        /\ project_data' = [project_data EXCEPT ![r] = IF Truthy(j) THEN j ELSE EmptyDict]
    /\ served' = served + 1
    /\ user_prompt' = [user_prompt EXCEPT ![r] = NoPrompt]
    /\ completion' = [completion EXCEPT ![r] = NoCompletion]
    /\ data' = [data EXCEPT ![r] = None]
    /\ response' = [response EXCEPT ![r] = NoResponse]
    /\ calls' = [calls EXCEPT ![r] = 0]
    /\ pc' = [pc EXCEPT ![r] = "received"]
    /\ UNCHANGED <<client, seen>>

\* Lines 161-164: the required-field check and its early return.
Validate(r) ==
    /\ pc[r] = "received"
    /\ IF missing(project_data[r]) # <<>>
       THEN /\ response' = [response EXCEPT ![r] = MissingFieldsResponse(project_data[r])]
            /\ pc' = [pc EXCEPT ![r] = "done"]
       ELSE /\ pc' = [pc EXCEPT ![r] = "validated"]
            /\ UNCHANGED response
    /\ UNCHANGED <<client, request_json, project_data, user_prompt, completion,
                   data, calls, served, seen>>

\* Lines 166 and 106-131: call_chatgpt_prefill is entered and formats the prompt.
BuildPrompt(r) ==
    /\ pc[r] = "validated"
    /\ user_prompt' = [user_prompt EXCEPT ![r] = UserPrompt(project_data[r])]
    /\ pc' = [pc EXCEPT ![r] = "prompted"]
    /\ UNCHANGED <<client, request_json, project_data, completion, data,
                   response, calls, served, seen>>

\* CallProvider, with a cache in front: a body answered before costs no call.
CallProviderCached(r, outcomes) ==
    /\ pc[r] = "prompted"
    /\ \E o \in outcomes :
        /\ calls' = [calls EXCEPT ![r] = IF project_data[r] \in seen THEN @ ELSE @ + 1]
        /\ completion' = [completion EXCEPT ![r] = o]
        /\ IF o.raised
           THEN /\ response' = [response EXCEPT ![r] = InternalServerError]
                /\ pc' = [pc EXCEPT ![r] = "done"]
           ELSE /\ pc' = [pc EXCEPT ![r] = "called"]
                /\ UNCHANGED response
    /\ UNCHANGED <<client, request_json, project_data, user_prompt, data,
                   served, seen>>

\* CallProvider, with the call wrapped in a handler that turns a provider
\* failure into the parse-failure fallback.
CallProviderSwallow(r, outcomes) ==
    /\ pc[r] = "prompted"
    /\ \E o \in outcomes :
        /\ calls' = [calls EXCEPT ![r] = @ + 1]
        /\ completion' = [completion EXCEPT ![r] = o]
        /\ IF o.raised
           THEN /\ data' = [data EXCEPT ![r] = ErrorResult(JStr(<<>>))]
                /\ pc' = [pc EXCEPT ![r] = "parsed"]
           ELSE /\ pc' = [pc EXCEPT ![r] = "called"]
                /\ UNCHANGED data
    /\ UNCHANGED <<client, request_json, project_data, user_prompt, response,
                   served, seen>>

\* Lines 133-140: the one blocking call.  o, drawn from outcomes, is what
\* the provider does: it raises (network, authentication, quota), or returns
\* a completion whose first choice has content o.content (a str, or None).
\* Nothing around the call catches, so a raise leaves the view function.
CallProvider(r, outcomes) ==
    /\ pc[r] = "prompted"
    /\ \E o \in outcomes :
        /\ calls' = [calls EXCEPT ![r] = @ + 1]
        /\ completion' = [completion EXCEPT ![r] = o]
        /\ IF o.raised
           THEN /\ response' = [response EXCEPT ![r] = InternalServerError]
                /\ pc' = [pc EXCEPT ![r] = "done"]
           ELSE /\ pc' = [pc EXCEPT ![r] = "called"]
                /\ UNCHANGED response
    /\ UNCHANGED <<client, request_json, project_data, user_prompt, data,
                   served, seen>>

\* Lines 142-149: json.loads raises TypeError for a content that is not a
\* str; only json.JSONDecodeError is caught.
ParseResult(r) ==
    /\ pc[r] = "called"
    /\ LET content == FirstChoiceContent(r)
       IN IF content.kind # "str"
          THEN /\ response' = [response EXCEPT ![r] = InternalServerError]
               /\ pc' = [pc EXCEPT ![r] = "done"]
               /\ UNCHANGED data
          ELSE /\ data' = [data EXCEPT ![r] = ParsedOrFallback(content)]
               /\ pc' = [pc EXCEPT ![r] = "parsed"]
               /\ UNCHANGED response
    /\ UNCHANGED <<client, request_json, project_data, user_prompt, completion,
                   calls, served, seen>>

\* Lines 166-171: ai_result is bound and the envelope is returned.
Respond(r) ==
    /\ pc[r] = "parsed"
    /\ response' = [response EXCEPT ![r] = Envelope(project_data[r], data[r])]
    /\ seen' = seen \cup {project_data[r]}
    /\ pc' = [pc EXCEPT ![r] = "done"]
    /\ UNCHANGED <<client, request_json, project_data, user_prompt, completion,
                   data, calls, served>>

----------------------------------------------------------------------------
(* Inputs *)

Keys == <<"address", "lga", "project_type", "dwellings", "gfa_m2",
          "description", "storeys">>

\* Values a caller may send under key k (the key may also be left out).
Options(k) ==
    CASE k = "address" -> {None, JStr(<<>>), JNum("0"), JStr(<<"1 Main St">>)}
      [] k = "lga" -> {None, JStr(<<>>), JNum("0"), JStr(<<"Sydney">>)}
      [] k = "project_type" -> {None, JStr(<<>>), JBool(FALSE), JStr(<<"residential">>)}
      [] k = "dwellings" -> {None, JNum("8")}
      [] k = "gfa_m2" -> {JNum("640")}
      [] k = "description" -> {JStr(<<>>), JStr(<<"townhouses">>)}
      [] k = "storeys" -> {JNum("2")}

RECURSIVE MappingsOver(_)
MappingsOver(ks) ==
    IF ks = <<>> THEN {[k \in {} |-> None]}
    ELSE LET rest == MappingsOver(Tail(ks))
             k == Head(ks)
         IN rest \cup
            {[x \in DOMAIN m \cup {k} |-> IF x = k THEN v ELSE m[x]] :
                 m \in rest, v \in Options(k)}

\* request.json: any mapping over Keys, or JSON null.
Bodies == {JObj(m) : m \in MappingsOver(Keys)} \cup {None}

MinimalBody ==
    JObj([address |-> JStr(<<"1 Main St">>), lga |-> JStr(<<"Sydney">>),
          project_type |-> JStr(<<"residential">>)])
FullBody ==
    JObj([address |-> JStr(<<"1 Main St">>), lga |-> JStr(<<"Sydney">>),
          project_type |-> JStr(<<"residential">>), dwellings |-> JNum("8"),
          gfa_m2 |-> JNum("640"), description |-> JStr(<<"townhouses">>)])
NoLgaBody ==
    JObj([address |-> JStr(<<"1 Main St">>), project_type |-> JStr(<<"residential">>)])

FewBodies == {MinimalBody, FullBody, NoLgaBody, EmptyDict}

\* Lexical pieces a provider text is made of: JSON punctuation, two string
\* literals, a number, the literals null and NaN, and a word of prose.
Alphabet == {"{", "}", ":", "\"error\"", "\"a\"", "1", "null", "NaN", "Sure"}

Texts == UNION {[1..n -> Alphabet] : n \in 0..MaxTextLen}

Raises == [raised |-> TRUE, content |-> None]
Returns(c) == [raised |-> FALSE, content |-> c]

FewOutcomes ==
    {Raises, Returns(None), Returns(JStr(<<"Sure">>)), Returns(JStr(<<>>)),
     Returns(JStr(<<"{", "\"a\"", ":", "1", "}">>))}

AllOutcomes == {Raises, Returns(None)} \cup {Returns(JStr(t)) : t \in Texts}

----------------------------------------------------------------------------
(* Specifications *)

\* Concurrent requests on every slot, slots reused, few inputs.
Next ==
    \E r \in Requests :
        \/ Receive(r, FewBodies)
        \/ Validate(r)
        \/ BuildPrompt(r)
        \/ CallProvider(r, FewOutcomes)
        \/ ParseResult(r)
        \/ Respond(r)

Spec == Init /\ [][Next]_vars

\* One request, every body.
NextBodies ==
    \/ pc[1] = "idle" /\ Receive(1, Bodies)
    \/ Validate(1)
    \/ BuildPrompt(1)
    \/ CallProvider(1, FewOutcomes)
    \/ ParseResult(1)
    \/ Respond(1)

SpecBodies == Init /\ [][NextBodies]_vars

\* One request, every provider text.
NextTexts ==
    \/ pc[1] = "idle" /\ Receive(1, {MinimalBody, EmptyDict})
    \/ Validate(1)
    \/ BuildPrompt(1)
    \/ CallProvider(1, AllOutcomes)
    \/ ParseResult(1)
    \/ Respond(1)

SpecTexts == Init /\ [][NextTexts]_vars

----------------------------------------------------------------------------
(* Vocabulary of the properties, stated without the handler's operators *)

\* A required field counts as missing when its key is absent or its value
\* is null, empty, or otherwise false in Python (0, false).
FieldMissing(b, k) ==
    \/ k \notin DOMAIN b.members
    \/ b.members[k] \in {None, JStr(<<>>), JNum("0"), JBool(FALSE), EmptyDict}

SomeRequiredMissing(b) ==
    \/ FieldMissing(b, "address")
    \/ FieldMissing(b, "lga")
    \/ FieldMissing(b, "project_type")

\* The names of the missing required fields, in the order address, lga,
\* project_type, joined with ", ".
ExpectedMissingList(b) ==
    LET a == IF FieldMissing(b, "address") THEN <<"address">> ELSE <<>>
        l == IF FieldMissing(b, "lga") THEN <<"lga">> ELSE <<>>
        t == IF FieldMissing(b, "project_type") THEN <<"project_type">> ELSE <<>>
        names == a \o l \o t
    IN CASE Len(names) = 0 -> <<>>
         [] Len(names) = 1 -> names
         [] Len(names) = 2 -> <<names[1], ", ", names[2]>>
         [] Len(names) = 3 -> <<names[1], ", ", names[2], ", ", names[3]>>

\* Request r has been through the required-field check.
Checked(r) == pc[r] \notin {"idle", "received"}

IsMapping(j) == j.kind = "obj"

----------------------------------------------------------------------------
\* C1: every body (a mapping, the empty mapping included) in which at least
\* one of address, lga, project_type is absent, null or empty is answered
\* with status 400 and {"error": "Missing fields: <list>"}, the list naming
\* exactly the missing required fields, comma-joined, in the order address,
\* lga, project_type; for the body {} it names all three.
C1_MissingFieldsListed ==
    \A r \in Requests :
        (Checked(r) /\ IsMapping(request_json[r])
                    /\ SomeRequiredMissing(request_json[r]))
        => /\ pc[r] = "done"
           /\ response[r].status = 400
           /\ response[r].json =
                  [error |-> <<"Missing fields: ">>
                                 \o ExpectedMissingList(request_json[r])]
           /\ (request_json[r] = EmptyDict =>
                  response[r].json.error =
                      <<"Missing fields: ", "address", ", ", "lga", ", ",
                        "project_type">>)

\* A body with lga present and the two other required fields missing has
\* been rejected, naming both.
C1_Witness ==
    \E r \in Requests :
        /\ pc[r] = "done"
        /\ IsMapping(request_json[r])
        /\ ~FieldMissing(request_json[r], "lga")
        /\ response[r].status = 400
        /\ response[r].json.error =
               <<"Missing fields: ", "address", ", ", "project_type">>

----------------------------------------------------------------------------
\* C2: the number of provider calls of a request is fixed by its own
\* validation result, after any earlier requests: none, and no prompt, when
\* a required field is missing; exactly one when validation passes, never a
\* second one (no retry when the call fails) and never none (no cache when
\* the same body was answered before).
C2_CallsFixedByValidation ==
    \A r \in Requests :
        /\ calls[r] \in {0, 1}
        /\ (Checked(r) /\ SomeRequiredMissing(project_data[r]))
               => (calls[r] = 0 /\ user_prompt[r] = NoPrompt)
        /\ (pc[r] \in {"called", "parsed"}) => calls[r] = 1
        /\ (pc[r] = "done" /\ ~SomeRequiredMissing(project_data[r]))
               => calls[r] = 1

\* One request has made its call for a body that was answered before, and
\* another has ended after a failed call with a single call made.
C2_Witness ==
    \E r, q \in Requests :
        /\ pc[r] = "called" /\ calls[r] = 1 /\ project_data[r] \in seen
        /\ pc[q] = "done" /\ completion[q].raised /\ calls[q] = 1

----------------------------------------------------------------------------
\* C3: echo invariant - for every body that passes validation and every
\* text the provider returns, the project field of the 200 response equals
\* the inbound body exactly: every key and value sent, optional and
\* unrecognised keys included, nothing added, removed or changed.
C3_ProjectEchoesBody ==
    \A r \in Requests :
        response[r].status = 200
            => /\ response[r].json.project = request_json[r]
               /\ DOMAIN response[r].json.project.members
                      = DOMAIN request_json[r].members
               /\ \A k \in DOMAIN request_json[r].members :
                      response[r].json.project.members[k]
                          = request_json[r].members[k]

\* A body with an optional field left out and an unrecognised key sent has
\* been answered 200 after the provider returned text that is not JSON.
C3_Witness ==
    \E r \in Requests :
        /\ response[r].status = 200
        /\ "storeys" \in DOMAIN request_json[r].members
        /\ "dwellings" \notin DOMAIN request_json[r].members
        /\ completion[r].content = JStr(<<"Sure">>)
        /\ "storeys" \in DOMAIN response[r].json.project.members

----------------------------------------------------------------------------
(* Provider replies, as the properties speak of them *)

\* The provider call of request r returned a completion (it did not raise).
CallReturned(r) == calls[r] = 1 /\ ~completion[r].raised

\* ... and the first choice's content is a text.
ReturnedText(r) == CallReturned(r) /\ completion[r].content.kind = "str"

\* The text is syntactically valid JSON (RFC 8259: no NaN literal).
IsValidJSON(t) == decode(t, FALSE).ok

\* The structure a valid JSON text denotes.
JSONValueOf(t) == decode(t, FALSE).val

HasErrorKey(v) == v.kind = "obj" /\ "error" \in DOMAIN v.members

\* {"error": "Model did not return valid JSON", "raw": <text>}
ExpectedErrorResult(t) ==
    [kind |-> "obj",
     members |-> [error |-> [kind |-> "str",
                             chars |-> <<"Model did not return valid JSON">>],
                  raw |-> [kind |-> "str", chars |-> t]]]

----------------------------------------------------------------------------
\* C4: for every validated request whose provider text is syntactically
\* valid JSON, the response has status 200 and ai_result equals the parsed
\* structure exactly - no key added, removed or rewritten, no schema check,
\* whether or not the structure is an object at all.
C4_ValidJSONPassedThrough ==
    \A r \in Requests :
        (pc[r] = "done" /\ ReturnedText(r)
                        /\ IsValidJSON(completion[r].content.chars))
        => /\ response[r].status = 200
           /\ response[r].json.ai_result
                  = JSONValueOf(completion[r].content.chars)

\* A request has been answered whose provider text was valid JSON that is
\* not an object.
C4_Witness ==
    \E r \in Requests :
        /\ pc[r] = "done"
        /\ completion[r] = Returns(JStr(<<"\"a\"">>))
        /\ response[r].status = 200
        /\ response[r].json.ai_result = JStr(<<"a">>)

----------------------------------------------------------------------------
\* C5: for every validated request whose provider text is not valid JSON,
\* the response still has status 200 and ai_result equals exactly
\* {"error": "Model did not return valid JSON", "raw": <the text, unchanged>}.
C5_InvalidJSONYieldsErrorResult ==
    \A r \in Requests :
        (pc[r] = "done" /\ ReturnedText(r)
                        /\ ~IsValidJSON(completion[r].content.chars))
        => /\ response[r].status = 200
           /\ response[r].json.ai_result
                  = ExpectedErrorResult(completion[r].content.chars)

----------------------------------------------------------------------------
\* C6: when the provider call itself fails, the failure is caught nowhere:
\* the request ends as a server failure, no {project, ai_result} envelope is
\* returned and the failure is never turned into the parse-failure
\* ErrorResult, so a provider failure and a format failure (a returned text
\* that does not parse) never look alike.
C6_ProviderFailurePropagates ==
    /\ \A r \in Requests :
           (calls[r] = 1 /\ completion[r].raised)
           => /\ pc[r] = "done"
              /\ response[r].status = 500
              /\ DOMAIN response[r].json \cap {"project", "ai_result", "error"} = {}
              /\ data[r] = None
    /\ \A r, q \in Requests :
           (/\ pc[r] = "done" /\ calls[r] = 1 /\ completion[r].raised
            /\ pc[q] = "done" /\ ReturnedText(q)
            /\ ~json_loads(completion[q].content.chars).ok)
           => /\ response[r] # response[q]
              /\ response[r].status # response[q].status

\* Two requests have ended, one after a failed provider call and one after
\* the provider returned text that is not JSON.
C6_Witness ==
    \E r, q \in Requests :
        /\ pc[r] = "done" /\ calls[r] = 1 /\ completion[r].raised
        /\ response[r].status = 500
        /\ pc[q] = "done" /\ completion[q] = Returns(JStr(<<"Sure">>))
        /\ response[q].status = 200

----------------------------------------------------------------------------
\* C7 as stated: in every 200 response, ai_result has a top-level error key
\* if and only if the provider's text could not be parsed as JSON.
C7_ErrorKeyIffParseFailure ==
    \A r \in Requests :
        response[r].status = 200
        => (HasErrorKey(response[r].json.ai_result)
                <=> ~json_loads(completion[r].content.chars).ok)

\* C7 as amended: in every 200 response, a text that json.loads rejects
\* gives an ai_result with a top-level error key (the ErrorResult); a text it
\* accepts gives an ai_result that has a top-level error key exactly when the
\* parsed structure is itself an object with such a key.
C7_ErrorKeyAmended ==
    \A r \in Requests :
        response[r].status = 200
        => LET t == completion[r].content.chars
               ai == response[r].json.ai_result
           IN /\ ~json_loads(t).ok
                    => (HasErrorKey(ai) /\ "raw" \in DOMAIN ai.members)
              /\ json_loads(t).ok
                    => (HasErrorKey(ai) <=> HasErrorKey(json_loads(t).val))

\* A 200 response has been sent for a text that did not parse, and its
\* ai_result carries the error key.
C7_Witness ==
    \E r \in Requests :
        /\ response[r].status = 200
        /\ completion[r] = Returns(JStr(<<"Sure", "{", "}">>))
        /\ HasErrorKey(response[r].json.ai_result)

----------------------------------------------------------------------------
(* Prompt lines, as the property speaks of them *)

OptionalFields == {"dwellings", "gfa_m2", "description"}

FieldLabel(k) ==
    CASE k = "address" -> "- Address: "
      [] k = "lga" -> "- LGA: "
      [] k = "project_type" -> "- Project type: "
      [] k = "dwellings" -> "- Number of dwellings: "
      [] k = "gfa_m2" -> "- Gross floor area (m2): "
      [] k = "description" -> "- Brief description: "

\* What the prompt shows for a field that was not provided.
Placeholder == <<"None">>

\* C8: for every body with address, lga and project_type present and any
\* subset of dwellings, gfa_m2, description absent, validation passes,
\* prompt building does not fail (the request goes on to its provider call),
\* and the user instruction sent has a line for each of the six fields, an
\* absent optional field being shown as the placeholder, not left out.
C8_AbsentOptionalsRendered ==
    \A r \in Requests :
        (Checked(r) /\ IsMapping(request_json[r])
                    /\ ~SomeRequiredMissing(request_json[r]))
        => /\ response[r].status # 400
           /\ pc[r] = "done" => calls[r] = 1
           /\ calls[r] = 1 =>
                \A k \in {"address", "lga", "project_type"} \cup OptionalFields :
                    /\ Cardinality({i \in DOMAIN user_prompt[r] :
                                       user_prompt[r][i][1] = FieldLabel(k)}) = 1
                    /\ \A i \in DOMAIN user_prompt[r] :
                           (/\ user_prompt[r][i][1] = FieldLabel(k)
                            /\ k \notin DOMAIN request_json[r].members)
                           => user_prompt[r][i][2] = Placeholder

\* A request whose body has none of the three optional fields has had its
\* prompt sent to the provider.
C8_Witness ==
    \E r \in Requests :
        /\ calls[r] = 1
        /\ ~SomeRequiredMissing(request_json[r])
        /\ DOMAIN request_json[r].members \cap OptionalFields = {}
        /\ Len(user_prompt[r]) = 8

----------------------------------------------------------------------------
\* C9: request isolation - under any interleaving of concurrently served
\* requests, each response is a function of the request's own body and own
\* provider reply: project is its own body, ai_result derives from the reply
\* to its own call, two requests with equal body and equal reply get equal
\* responses, and the shared client is as it was at startup.
C9_RequestIsolation ==
    /\ client = ClientAtStartup
    /\ \A r \in Requests :
           /\ response[r].status = 200
                  => /\ response[r].json.project = request_json[r]
                     /\ ReturnedText(r)
                     /\ LET t == completion[r].content.chars
                        IN response[r].json.ai_result =
                               IF json_loads(t).ok THEN json_loads(t).val
                               ELSE ExpectedErrorResult(t)
           /\ response[r].status = 400
                  => /\ SomeRequiredMissing(project_data[r])
                     /\ response[r].json.error =
                            <<"Missing fields: ">> \o ExpectedMissingList(project_data[r])
           /\ (pc[r] = "done" /\ CallReturned(r)
                  /\ completion[r].content.kind = "str")
                  => response[r].status = 200
    /\ \A r, q \in Requests :
           (/\ pc[r] = "done" /\ pc[q] = "done"
            /\ request_json[r] = request_json[q]
            /\ completion[r] = completion[q])
           => response[r] = response[q]

\* Two requests with different bodies and different replies have both been
\* answered 200.
C9_Witness ==
    \E r, q \in Requests :
        /\ response[r].status = 200 /\ response[q].status = 200
        /\ request_json[r] # request_json[q]
        /\ completion[r].content # completion[q].content
        /\ response[r].json.ai_result # response[q].json.ai_result

----------------------------------------------------------------------------
\* C10: every request that passes validation and whose provider call
\* returns a completion without raising ends with a status-200 envelope,
\* whatever the first choice's content is - valid JSON text, other text, the
\* empty string, or an absent (null) content; a server error occurs only
\* when the provider call itself fails.
C10_ReturnedCompletionGives200 ==
    \A r \in Requests :
        (pc[r] = "done" /\ CallReturned(r))
        => /\ response[r].status = 200
           /\ DOMAIN response[r].json = {"project", "ai_result"}

====
